---- MODULE Spec2Model ----
(***************************************************************************)
(* Business-calendar elapsed-time computation of the Task-Tracker.         *)
(*                                                                         *)
(* calculateElapsedHours (src/pages/EmployeesPage.tsx:548-584) is modelled *)
(* statement by statement: one action for the entry block (parse, guard,   *)
(* initialisation), one for a loop iteration, one for the loop exit and    *)
(* return.  A Date is its time value: milliseconds of local wall-clock     *)
(* time since 1970-01-01T00:00 (a Thursday), or NaN for an Invalid Date.   *)
(* The local zone has a fixed offset (no daylight-saving transitions), so   *)
(* every calendar day is 24 hours long.                                    *)
(***************************************************************************)
EXTENDS Integers, Sequences, FiniteSets, TLC

VARIABLES startDateStr, endDateStr, start, end, current, totalMilliseconds,
          pc, iters, result

\* The task store and the task page of each client (src/pages/TasksPage.tsx).
VARIABLES tasks, nextId, now, editingTask, isModalOpen, pendingCode

\* Several invocations of calculateElapsedHours in progress at once: the
\* arguments and position of each, and the cells that hold their cursor and
\* accumulator.
VARIABLES calls, locals

\* The task_code column of the store and the code each client has fetched
\* for the task it is creating (src/db.ts, generateTaskCode).
VARIABLES taskCodes, inserted, codeOf

\* handleSave in progress on each client's task page: the isSaving flag, the
\* request awaited, and the calls made to onUpdate and sendWebhook since the
\* form was submitted.
VARIABLES isSaving, saveCall, called

\* The application shell (src/App.tsx) and the filters of its task page.
VARIABLES currentUser, activePage, statusFilter, assigneeFilter, searchTerm, db

codeVars == <<taskCodes, inserted, codeOf>>

saveVars == <<isSaving, saveCall, called>>

gateVars == <<currentUser, activePage, statusFilter, assigneeFilter,
              searchTerm, db>>

pageVars == <<codeVars, saveVars, gateVars>>

concVars == <<calls, locals>>

calcVars == <<startDateStr, endDateStr, start, end, current, totalMilliseconds,
              pc, iters, result>>

taskVars == <<tasks, nextId, now, editingTask, isModalOpen, pendingCode>>

vars == <<startDateStr, endDateStr, start, end, current, totalMilliseconds,
          pc, iters, result, tasks, nextId, now, editingTask, isModalOpen,
          pendingCode, calls, locals, taskCodes, inserted, codeOf, isSaving,
          saveCall, called, currentUser, activePage, statusFilter,
          assigneeFilter, searchTerm, db>>

(***************************************************************************)
(* Bounds of the model.                                                    *)
(***************************************************************************)
MaxDay == 8

\* Cap on the loop iterations the model follows.  A call on days 0..MaxDay
\* needs at most MaxDay + 1 of them, so the cap is never met by the loop as
\* written (IterationCapNotMet).
MaxIters == MaxDay + 3

\* Times of day (milliseconds after local midnight) the inputs are drawn from.
ClockSamples ==
    { 0,                                  \* 00:00:00.000
      8 * 3600000,                        \* 08:00
      9 * 3600000,                        \* 09:00
      9 * 3600000 + 10000,                \* 09:00:10
      9 * 3600000 + 18000,                \* 09:00:18
      9 * 3600000 + 54000,                \* 09:00:54
      9 * 3600000 + 1800000,              \* 09:30
      10 * 3600000,                       \* 10:00
      14 * 3600000,                       \* 14:00
      17 * 3600000,                       \* 17:00
      17 * 3600000 + 3590000,             \* 17:59:50
      18 * 3600000,                       \* 18:00
      18 * 3600000 + 1800000,             \* 18:30
      20 * 3600000,                       \* 20:00
      24 * 3600000 - 1 }                  \* 23:59:59.999

\* A timestamp string: a calendar day and a time of day, or the string that
\* does not parse.
InvalidDateStr == [day |-> -1, clock |-> 0]

DateStrings ==
    [day : 0..MaxDay, clock : ClockSamples] \cup {InvalidDateStr}

(***************************************************************************)
(* Calendar constants (src/constants.ts).                                  *)
(***************************************************************************)
OFFICE_HOURS_START == 9
OFFICE_HOURS_END == 18
\* A Monday-to-Friday week.
VALID_WORKING_DAYS_monFri == <<1, 2, 3, 4, 5>>

VALID_WORKING_DAYS == <<6, 0, 1, 2, 3, 4>>

(***************************************************************************)
(* The Date object.                                                        *)
(***************************************************************************)
NaN == -1

MsPerHour == 1000 * 60 * 60

MsPerDay == 24 * MsPerHour

\* new Date(str): the time value of the parsed string, NaN if unparsable.
\* An unparsable string yields the epoch instead of an Invalid Date.
NewDate_invalidAsEpoch(str) ==
    IF str = InvalidDateStr THEN 0
    ELSE str.day * MsPerDay + str.clock

NewDate(str) ==
    IF str = InvalidDateStr THEN NaN
    ELSE str.day * MsPerDay + str.clock

\* Relational comparison of two Dates: false whenever an operand is NaN.
DateLt(a, b) == a # NaN /\ b # NaN /\ a < b

DateGt(a, b) == a # NaN /\ b # NaN /\ a > b

DateGe(a, b) == a # NaN /\ b # NaN /\ a >= b

\* Date.prototype.getDay: 0 = Sunday .. 6 = Saturday; day 0 is a Thursday.
\* getDate in place of getDay: the day of the month, 1..31 (every modelled
\* day is in January 1970).
getDay_getDate(t) == ((t \div MsPerDay) % 31) + 1

\* Weekdays numbered from Monday = 0.
getDay_mondayFirst(t) == (3 + (t \div MsPerDay)) % 7

getDay(t) == (4 + (t \div MsPerDay)) % 7

\* Date.prototype.setHours(h, 0, 0, 0): same calendar date, time h:00:00.000.
setHours(t, h) == (t \div MsPerDay) * MsPerDay + h * MsPerHour

\* Date.prototype.setDate(getDate() + n): n calendar days later, same time
\* of day.
setDatePlus(t, n) == t + n * MsPerDay

\* Array.prototype.includes on VALID_WORKING_DAYS.
includes(arr, x) == \E i \in 1..Len(arr) : arr[i] = x

(***************************************************************************)
(* One loop iteration, lines 558-576: the milliseconds the cursor's day    *)
(* adds to the accumulator.                                                *)
(***************************************************************************)
\* A numeric range check from the smallest to the largest working weekday.
isWorkingDay_range(cur) == getDay(cur) >= 0 /\ getDay(cur) <= 6

isWorkingDay(cur) == includes(VALID_WORKING_DAYS, getDay(cur))

\* The window opens at midnight: nothing is clipped before opening.
dayStart_midnight(cur) == setHours(cur, 0)

dayStart(cur) == setHours(cur, OFFICE_HOURS_START)

\* 6 PM written as hour 6.
dayEnd_hour6(cur) == setHours(cur, 6)

\* The window closes a fixed number of hours after the cursor.
dayEnd_fromCursor(cur) == cur + (OFFICE_HOURS_END - OFFICE_HOURS_START) * MsPerHour

dayEnd(cur) == setHours(cur, OFFICE_HOURS_END)

\* The cursor is ignored: every day counts from opening.
actualStart_windowOnly(cur) == dayStart(cur)

actualStart(cur) == IF DateGt(cur, dayStart(cur)) THEN cur ELSE dayStart(cur)

\* The end is ignored: every day counts up to closing.
actualEnd_noClip(cur, e) == dayEnd(cur)

actualEnd(cur, e) == IF DateLt(e, dayEnd(cur)) THEN e ELSE dayEnd(cur)

\* The test actualStart < actualEnd of line 573 is dropped.
DayContribution_noGuard(cur, e) ==
    IF isWorkingDay(cur)
    THEN actualEnd(cur, e) - actualStart(cur)
    ELSE 0

DayContribution(cur, e) ==
    IF isWorkingDay(cur) /\ DateLt(actualStart(cur), actualEnd(cur, e))
    THEN actualEnd(cur, e) - actualStart(cur)
    ELSE 0

\* Lines 579-580: move to the next day, 9:00 AM.
\* The date is not advanced, only the hour is reset.
NextCursor_sameDay(cur) == setHours(cur, OFFICE_HOURS_START)

\* The cursor steps hour by hour instead of day by day.
NextCursor_nextHour(cur) == cur + MsPerHour

\* The date is advanced but the time of day is kept.
NextCursor_keepClock(cur) == setDatePlus(cur, 1)

NextCursor(cur) == setHours(setDatePlus(cur, 1), OFFICE_HOURS_START)

(***************************************************************************)
(* Line 583: Math.max(0, parseFloat((ms / 3600000).toFixed(2))).  Numbers  *)
(* with two decimals are represented by their count of hundredths.         *)
(*                                                                         *)
(* toFixed(2) picks the integer n for which n / 100 is closest to the      *)
(* exact value of the double x = ms / 3600000, the larger n on a tie.      *)
(* ms / 3600000 lies midway between two hundredths only when               *)
(* ms = 36000 * q + 18000, i.e. the quotient is odd / 200 with             *)
(* odd = 2q + 1; then the double nearest to odd / 200 decides.  With       *)
(* L = floor(log2(odd / 200)) the double is m * 2^(L - 52), m the integer  *)
(* nearest to odd * 2^(49 - L) / 25, so it lies above the midpoint when    *)
(* the remainder of odd * 2^(49 - L) modulo 25 is 13..24, below it when    *)
(* the remainder is 1..12, and is the midpoint itself when it is 0.        *)
(***************************************************************************)
RECURSIVE Pow2Mod25(_)
Pow2Mod25(n) == IF n = 0 THEN 1 ELSE (2 * Pow2Mod25(n - 1)) % 25

RECURSIVE Pow2(_)
Pow2(n) == IF n = 0 THEN 1 ELSE 2 * Pow2(n - 1)

\* floor(log2(odd / 200)) for odd >= 1.
RECURSIVE FloorLog2Over200(_, _)
FloorLog2Over200(odd, L) ==
    IF odd >= 200
    THEN IF 200 * Pow2(L + 1) <= odd THEN FloorLog2Over200(odd, L + 1) ELSE L
    ELSE IF odd * Pow2(-L) < 200 THEN FloorLog2Over200(odd, L - 1) ELSE L

DoubleAtOrAboveMidpoint(odd) ==
    LET n == 49 - FloorLog2Over200(odd, 0)
        r == ((odd % 25) * Pow2Mod25(n % 20)) % 25
    IN  r = 0 \/ r >= 13

\* The quotient is cut off after two decimals instead of rounded.
toFixed2_truncate(ms) == ms \div 36000

toFixed2(ms) ==
    LET q == ms \div 36000
        rem == ms % 36000
    IN  IF 2 * rem < 36000 THEN q
        ELSE IF 2 * rem > 36000 THEN q + 1
        ELSE IF DoubleAtOrAboveMidpoint(2 * q + 1) THEN q + 1 ELSE q

MathMax0(x) == IF x > 0 THEN x ELSE 0

ReturnValue(ms) == MathMax0(toFixed2(ms))

(***************************************************************************)
(* The task store (the remote `tasks` table) and the task page.  Rows are  *)
(* numbered in the order of their insertion; a slot holding NoTask is a    *)
(* row not yet inserted or deleted.  Every client runs the task page with  *)
(* its own editor state.  The clock `now` counts the instants passed;      *)
(* new Date().toISOString() at instant i is the timestamp string NowStr(i).*)
(***************************************************************************)
\* Rows ever inserted into the store.
MaxTasks == 1

\* Instants after the first one.
MaxTick == 1

Clients == {"c1", "c2"}

TaskIds == 1..MaxTasks

\* src/types.ts, TaskStatus: the terminal status and, for the nine others
\* (handleSave tells none of them apart), the status a new task gets.
Statuses == {"Assign", "Done"}

\* task_end_time of a task that has not ended: null.
NullStr == [day |-> -2, clock |-> 0]

NoTask == [id |-> 0]

\* Times of day of the instants of each day.
TickClocks == <<17 * 3600000, 17 * 3600000 + 3590000>>

NowStr(i) ==
    [day |-> i \div Len(TickClocks), clock |-> TickClocks[(i % Len(TickClocks)) + 1]]

\* The task page before anything has happened.
TaskIdle ==
    /\ tasks = [i \in TaskIds |-> NoTask]
    /\ nextId = 1
    /\ now = 0
    /\ editingTask = [c \in Clients |-> NoTask]
    /\ isModalOpen = [c \in Clients |-> FALSE]
    /\ pendingCode = [c \in Clients |-> 0]

\* Invocations in progress at once, and the timestamp strings they are
\* called with.
Invocations == {1, 2}

ConcMaxDay == 2

ConcDateStrings ==
    [day : 0..ConcMaxDay, clock : {10 * 3600000, 17 * 3600000 + 3590000}]
        \cup {InvalidDateStr}

NotCalled ==
    [startDateStr |-> InvalidDateStr, endDateStr |-> InvalidDateStr,
     start |-> NaN, end |-> NaN, pc |-> "entry", iters |-> 0, result |-> 0]

FreshLocals == [current |-> NaN, totalMilliseconds |-> 0]

ConcIdle ==
    /\ calls = [i \in Invocations |-> NotCalled]
    /\ locals = [i \in Invocations |-> FreshLocals]

\* No call of calculateElapsedHours is being followed step by step.
CalcIdle ==
    /\ startDateStr = InvalidDateStr
    /\ endDateStr = InvalidDateStr
    /\ start = NaN
    /\ end = NaN
    /\ current = NaN
    /\ totalMilliseconds = 0
    /\ pc = "entry"
    /\ iters = 0
    /\ result = 0

(***************************************************************************)
(* Task codes.  taskCodes[i] is the task_code of the i-th row ever         *)
(* inserted into the tasks table, NoCode once the row is deleted or while  *)
(* it is not yet inserted; `inserted` counts the rows ever inserted.       *)
(***************************************************************************)
\* Rows ever inserted while task codes are followed.
MaxInserts == 3

CodeSlots == 1..MaxInserts

NoCode == << >>

CodeIdle ==
    /\ taskCodes = [i \in CodeSlots |-> NoCode]
    /\ inserted = 0
    /\ codeOf = [c \in Clients |-> NoCode]

(***************************************************************************)
(* handleSave step by step.  saveCall[c].at is the request the handler of  *)
(* client c awaits: "update", "updateRetry", "code" (generateTaskCode),   *)
(* "insert", "insertRetry", or "idle" when no handleSave is running.       *)
(***************************************************************************)
NoCall == [at |-> "idle"]

SaveIdle ==
    /\ isSaving = [c \in Clients |-> FALSE]
    /\ saveCall = [c \in Clients |-> NoCall]
    /\ called = [c \in Clients |-> {}]

(***************************************************************************)
(* The application shell.  Users are those of DEFAULT_USERS (src/db.ts:    *)
(* 31-35) and the built-in administrator of the login page; db is the      *)
(* list db.tasks handed to the pages.                                      *)
(***************************************************************************)
\* Tasks in db.tasks.
MaxListed == 2

\* src/types.ts, UserRole.
MANAGER == "MANAGER"

ASSIGNEE == "ASSIGNEE"

Users ==
    { [id |-> "u1", role |-> MANAGER],
      [id |-> "u2", role |-> ASSIGNEE],
      [id |-> "u3", role |-> ASSIGNEE],
      [id |-> "00000000-0000-0000-0000-000000000000", role |-> MANAGER] }

\* currentUser = null: nobody is logged in.
NoUser == [id |-> "", role |-> ""]

Pages == {"dashboard", "tasks", "valuations", "settings", "employees"}

ALL == "ALL"

\* What the search box may hold, and the titles tasks may have.
SearchTerms == {"", "alpha", "B0001"}

Titles == {"alpha", "beta"}

\* The task a list holds at position i.
ListedTasks(i) ==
    [id : {i}, task_code : {IF i = 1 THEN "B0001" ELSE "B0002+"},
     title : Titles, status : Statuses, assigned_to : {"u1", "u2", "u3"}]

\* The lists db.tasks may be.
TaskLists ==
    UNION { {l \in [1..n -> UNION {ListedTasks(i) : i \in 1..n}] :
                \A i \in 1..n : l[i] \in ListedTasks(i)} : n \in 0..MaxListed }

GateIdle ==
    /\ currentUser = NoUser
    /\ activePage = "dashboard"
    /\ statusFilter = ALL
    /\ assigneeFilter = ALL
    /\ searchTerm = ""
    /\ db = << >>

PageIdle == CodeIdle /\ SaveIdle /\ GateIdle

(***************************************************************************)
(* calculateElapsedHours as a state machine.                               *)
(*   pc = "entry"   the call has been made, nothing executed yet           *)
(*   pc = "while"   at the loop test of line 557                           *)
(*   pc = "ret552"  returned by the guard of line 552                      *)
(*   pc = "ret583"  returned by line 583                                   *)
(* iters counts the executed loop iterations; result is in hundredths of   *)
(* an hour and is meaningful once the function has returned.               *)
(***************************************************************************)
Init ==
    /\ startDateStr \in DateStrings
    /\ endDateStr \in DateStrings
    /\ start = NaN
    /\ end = NaN
    /\ current = NaN
    /\ totalMilliseconds = 0
    /\ pc = "entry"
    /\ iters = 0
    /\ result = 0
    /\ TaskIdle
    /\ ConcIdle
    /\ PageIdle

\* Lines 549-555.
\* A strict comparison in the guard.
StartGeEnd_strict(s, e) == DateGt(s, e)

StartGeEnd(s, e) == DateGe(s, e)

Entry ==
    /\ pc = "entry"
    /\ start' = NewDate(startDateStr)
    /\ end' = NewDate(endDateStr)
    /\ IF StartGeEnd(start', end')
       THEN /\ pc' = "ret552"
            /\ result' = 0
            /\ UNCHANGED <<current, totalMilliseconds>>
       ELSE /\ pc' = "while"
            /\ totalMilliseconds' = 0
            /\ current' = start'
            /\ UNCHANGED result
    /\ UNCHANGED <<startDateStr, endDateStr, iters>>
    /\ UNCHANGED <<taskVars, concVars, pageVars>>

\* Line 557.
LoopTest(cur, e) == DateLt(cur, e)

\* Lines 557-581: one iteration of the loop.
LoopIter ==
    /\ pc = "while"
    /\ LoopTest(current, end)
    /\ iters < MaxIters
    /\ totalMilliseconds' = totalMilliseconds + DayContribution(current, end)
    /\ current' = NextCursor(current)
    /\ iters' = iters + 1
    /\ UNCHANGED <<startDateStr, endDateStr, start, end, pc, result>>
    /\ UNCHANGED <<taskVars, concVars, pageVars>>

\* Lines 557, 583: the loop test fails and the function returns.
LoopExit ==
    /\ pc = "while"
    /\ ~LoopTest(current, end)
    /\ result' = ReturnValue(totalMilliseconds)
    /\ pc' = "ret583"
    /\ UNCHANGED <<startDateStr, endDateStr, start, end, current,
                   totalMilliseconds, iters>>
    /\ UNCHANGED <<taskVars, concVars, pageVars>>

Next == Entry \/ LoopIter \/ LoopExit

Spec == Init /\ [][Next]_vars

\* The function body runs to completion once called: a synchronous call is
\* never suspended.
LiveSpec == Spec /\ WF_vars(Next)

IterationCapNotMet == iters < MaxIters

Returned == pc \in {"ret552", "ret583"}

TypeOK ==
    /\ startDateStr \in DateStrings
    /\ endDateStr \in DateStrings
    /\ start \in Int /\ end \in Int /\ current \in Int
    /\ totalMilliseconds \in Nat
    /\ pc \in {"entry", "while", "ret552", "ret583"}
    /\ iters \in Nat
    /\ result \in Nat

(***************************************************************************)
(* calculateElapsedHours as a function of its two arguments: the loop of   *)
(* lines 557-581 unrolled from a cursor, and the whole body.               *)
(***************************************************************************)
RECURSIVE LoopFrom(_, _, _)
LoopFrom(cur, e, total) ==
    IF LoopTest(cur, e)
    THEN LoopFrom(NextCursor(cur), e, total + DayContribution(cur, e))
    ELSE total

\* The accumulator at the return of line 583 for Date values s, e.
AccumulatedMs(s, e) == IF StartGeEnd(s, e) THEN 0 ELSE LoopFrom(s, e, 0)

\* The value returned for Date values s, e, in hundredths of an hour.
ElapsedBetween(s, e) ==
    IF StartGeEnd(s, e) THEN 0 ELSE ReturnValue(LoopFrom(s, e, 0))

calculateElapsedHours(sStr, eStr) ==
    ElapsedBetween(NewDate(sStr), NewDate(eStr))

\* The state machine computes the function.
MachineComputesFunction ==
    Returned => result = calculateElapsedHours(startDateStr, endDateStr)

(***************************************************************************)
(* Invocations of calculateElapsedHours running at once, their steps       *)
(* interleaved in any order.  `let totalMilliseconds` (line 554) and       *)
(* `let current` (line 555) are declared in the function body, so every    *)
(* invocation has cells of its own: invocation i uses locals[LocalsOf(i)]. *)
(***************************************************************************)
\* The two variables are declared at module scope: one cell for all.
LocalsOf_moduleScope(i) == 1

LocalsOf(i) == i

\* Lines 549-555.
ConcEntry(i) ==
    LET s == NewDate(calls[i].startDateStr)
        e == NewDate(calls[i].endDateStr)
    IN  /\ calls[i].pc = "entry"
        /\ IF StartGeEnd(s, e)
           THEN /\ calls' = [calls EXCEPT ![i].start = s, ![i].end = e,
                                          ![i].pc = "ret552", ![i].result = 0]
                /\ UNCHANGED locals
           ELSE /\ calls' = [calls EXCEPT ![i].start = s, ![i].end = e,
                                          ![i].pc = "while"]
                /\ locals' = [locals EXCEPT ![LocalsOf(i)] =
                                 [current |-> s, totalMilliseconds |-> 0]]
        /\ UNCHANGED <<calcVars, taskVars, pageVars>>

\* Lines 557-581.
ConcLoopIter(i) ==
    LET mine == locals[LocalsOf(i)]
    IN  /\ calls[i].pc = "while"
        /\ LoopTest(mine.current, calls[i].end)
        /\ calls[i].iters < MaxIters
        /\ locals' = [locals EXCEPT ![LocalsOf(i)] =
                         [current |-> NextCursor(mine.current),
                          totalMilliseconds |->
                             mine.totalMilliseconds
                                + DayContribution(mine.current, calls[i].end)]]
        /\ calls' = [calls EXCEPT ![i].iters = @ + 1]
        /\ UNCHANGED <<calcVars, taskVars, pageVars>>

\* Lines 557, 583.
ConcLoopExit(i) ==
    LET mine == locals[LocalsOf(i)]
    IN  /\ calls[i].pc = "while"
        /\ ~LoopTest(mine.current, calls[i].end)
        /\ calls' = [calls EXCEPT ![i].pc = "ret583",
                                  ![i].result = ReturnValue(mine.totalMilliseconds)]
        /\ UNCHANGED locals
        /\ UNCHANGED <<calcVars, taskVars, pageVars>>

ConcInit ==
    /\ calls \in [Invocations ->
                    {[NotCalled EXCEPT !.startDateStr = a, !.endDateStr = b] :
                        a \in ConcDateStrings, b \in ConcDateStrings}]
    /\ locals = [i \in Invocations |-> FreshLocals]
    /\ CalcIdle
    /\ TaskIdle
    /\ PageIdle

ConcNext ==
    \E i \in Invocations : ConcEntry(i) \/ ConcLoopIter(i) \/ ConcLoopExit(i)

ConcSpec == ConcInit /\ [][ConcNext]_vars

(***************************************************************************)
(* The task page, src/pages/TasksPage.tsx.                                 *)
(***************************************************************************)
\* generateTaskCode (src/db.ts:12-16): the count of rows plus one.
TaskCount == Cardinality({i \in TaskIds : tasks[i] # NoTask})

generateTaskCode == TaskCount + 1

\* Line 157: the end time an edit writes.
\* Every save stamps the end time, whatever the status.
EditEndTime_alwaysNow(editing, status, nowStr) == nowStr

\* No save stamps the end time.
EditEndTime_keep(editing, status, nowStr) == editing.task_end_time

EditEndTime(editing, status, nowStr) ==
    IF status = "Done" THEN nowStr ELSE editing.task_end_time

\* Line 158: the elapsed hours an edit writes.
\* The hours loaded into the editor are written back, never recomputed.
EditElapsed_keep(editing, endTime) == editing.elapsed_hours

\* The arguments of calculateElapsedHours are swapped.
EditElapsed_swapped(editing, endTime) ==
    IF endTime # NullStr
    THEN calculateElapsedHours(endTime, editing.task_start_time)
    ELSE editing.elapsed_hours

EditElapsed(editing, endTime) ==
    IF endTime # NullStr
    THEN calculateElapsedHours(editing.task_start_time, endTime)
    ELSE editing.elapsed_hours

\* Lines 160-162: the status, end time and elapsed hours of taskData.
\* taskData carries a start time as well.
EditTaskData_withStart(editing, status, nowStr) ==
    LET endTime == EditEndTime(editing, status, nowStr)
    IN  [status |-> status,
         task_start_time |-> nowStr,
         task_end_time |-> endTime,
         elapsed_hours |-> EditElapsed(editing, endTime)]

EditTaskData(editing, status, nowStr) ==
    LET endTime == EditEndTime(editing, status, nowStr)
    IN  [status |-> status,
         task_end_time |-> endTime,
         elapsed_hours |-> EditElapsed(editing, endTime)]

\* Line 169, supabase.from('tasks').update(taskData): the columns taskData
\* names take its values, the others keep theirs.
Update(row, data) ==
    [f \in DOMAIN row |-> IF f \in DOMAIN data THEN data[f] ELSE row[f]]

\* The store's answers to a write: accepted; rejected with an error that
\* mentions 'concern' and the retry accepted; the retry rejected too;
\* rejected with another error.
WriteOutcomes == {"ok", "concern_retry_ok", "concern_retry_error", "error"}

Written(outcome) == outcome \in {"ok", "concern_retry_ok"}

\* Line 236: the Create Task button.
OpenCreate(c) ==
    /\ pendingCode[c] = 0
    /\ editingTask' = [editingTask EXCEPT ![c] = NoTask]
    /\ isModalOpen' = [isModalOpen EXCEPT ![c] = TRUE]
    /\ UNCHANGED <<tasks, nextId, now, pendingCode>>
    /\ UNCHANGED <<calcVars, concVars, pageVars>>

\* Line 353: the Edit button of a listed task loads the row into the editor.
OpenEdit(c, id) ==
    /\ pendingCode[c] = 0
    /\ tasks[id] # NoTask
    /\ editingTask' = [editingTask EXCEPT ![c] = tasks[id]]
    /\ UNCHANGED <<tasks, nextId, now, isModalOpen, pendingCode>>
    /\ UNCHANGED <<calcVars, concVars, pageVars>>

\* Line 385: the close button of the modal.
CloseModal(c) ==
    /\ pendingCode[c] = 0
    /\ isModalOpen[c] \/ editingTask[c] # NoTask
    /\ editingTask' = [editingTask EXCEPT ![c] = NoTask]
    /\ isModalOpen' = [isModalOpen EXCEPT ![c] = FALSE]
    /\ UNCHANGED <<tasks, nextId, now, pendingCode>>
    /\ UNCHANGED <<calcVars, concVars, pageVars>>

\* handleSave with a task in the editor, lines 141-180 and 215-223.  The
\* update reaches the row with the editor's id; without such a row the
\* store answers with an error.
SaveEdit(c, status, outcome) ==
    LET editing == editingTask[c]
        data == EditTaskData(editing, status, NowStr(now))
        rowExists == tasks[editing.id] # NoTask
    IN  /\ pendingCode[c] = 0
        /\ editing # NoTask
        /\ rowExists \/ ~Written(outcome)
        /\ UNCHANGED <<nextId, now, pendingCode>>
        /\ UNCHANGED <<calcVars, concVars, pageVars>>
        /\ IF Written(outcome)
           THEN /\ isModalOpen' = [isModalOpen EXCEPT ![c] = FALSE]
                /\ editingTask' = [editingTask EXCEPT ![c] = NoTask]
                /\ tasks' = [tasks EXCEPT ![editing.id] = Update(@, data)]
           ELSE UNCHANGED <<tasks, isModalOpen, editingTask>>

\* handleSave without a task in the editor, lines 141-182: up to the answer
\* of generateTaskCode.
SaveCreateBegin(c) ==
    /\ pendingCode[c] = 0
    /\ editingTask[c] = NoTask
    /\ isModalOpen[c]
    /\ pendingCode' = [pendingCode EXCEPT ![c] = generateTaskCode]
    /\ UNCHANGED <<tasks, nextId, now, editingTask, isModalOpen>>
    /\ UNCHANGED <<calcVars, concVars, pageVars>>

\* handleSave without a task in the editor, lines 183-223: the insert and
\* what follows it.  The store holds at most MaxTasks rows ever inserted.
SaveCreateFinish(c, outcome) ==
    /\ pendingCode[c] > 0
    /\ nextId <= MaxTasks \/ ~Written(outcome)
    /\ IF Written(outcome)
       THEN /\ tasks' = [tasks EXCEPT ![nextId] =
                           [id |-> nextId,
                            task_code |-> pendingCode[c],
                            status |-> "Assign",
                            task_start_time |-> NowStr(now),
                            task_end_time |-> NullStr,
                            elapsed_hours |-> 0]]
            /\ nextId' = nextId + 1
            /\ isModalOpen' = [isModalOpen EXCEPT ![c] = FALSE]
            /\ editingTask' = [editingTask EXCEPT ![c] = NoTask]
       ELSE UNCHANGED <<tasks, nextId, isModalOpen, editingTask>>
    /\ pendingCode' = [pendingCode EXCEPT ![c] = 0]
    /\ UNCHANGED now
    /\ UNCHANGED <<calcVars, concVars, pageVars>>

\* handleDelete, lines 118-139, confirmed and accepted by the store.
Delete(c, id) ==
    /\ tasks[id] # NoTask
    /\ tasks' = [tasks EXCEPT ![id] = NoTask]
    /\ UNCHANGED <<nextId, now, editingTask, isModalOpen, pendingCode>>
    /\ UNCHANGED <<calcVars, concVars, pageVars>>

\* Time passes.
Tick ==
    /\ now < MaxTick
    /\ now' = now + 1
    /\ UNCHANGED <<tasks, nextId, editingTask, isModalOpen, pendingCode>>
    /\ UNCHANGED <<calcVars, concVars, pageVars>>

TaskInit == CalcIdle /\ TaskIdle /\ ConcIdle /\ PageIdle

TaskNext ==
    \/ \E c \in Clients : OpenCreate(c)
    \/ \E c \in Clients, id \in TaskIds : OpenEdit(c, id)
    \/ \E c \in Clients : CloseModal(c)
    \/ \E c \in Clients, status \in Statuses, outcome \in WriteOutcomes :
          SaveEdit(c, status, outcome)
    \/ \E c \in Clients : SaveCreateBegin(c)
    \/ \E c \in Clients, outcome \in WriteOutcomes :
          SaveCreateFinish(c, outcome)
    \/ \E c \in Clients, id \in TaskIds : Delete(c, id)
    \/ Tick

TaskSpec == TaskInit /\ [][TaskNext]_vars

(***************************************************************************)
(* Task codes: generateTaskCode (src/db.ts:12-16), the insert of           *)
(* handleSave and handleDelete, for every client, the requests of          *)
(* different clients interleaved in any order.                             *)
(***************************************************************************)
DigitChars == <<"0", "1", "2", "3", "4", "5", "6", "7", "8", "9">>

\* Number.prototype.toString: the decimal digits of n, as characters.
RECURSIVE toString(_)
toString(n) ==
    IF n < 10 THEN <<DigitChars[n + 1]>>
    ELSE toString(n \div 10) \o <<DigitChars[(n % 10) + 1]>>

\* String.prototype.padStart(len, ch).
RECURSIVE padStart(_, _, _)
padStart(str, len, ch) ==
    IF Len(str) >= len THEN str ELSE padStart(<<ch>> \o str, len, ch)

\* Line 13: the count of the rows of the table.
StoredCount == Cardinality({i \in CodeSlots : taskCodes[i] # NoCode})

\* Lines 14-15: the code for a table of `count` rows.
TaskCodeFor(count) == <<"B">> \o padStart(toString(count + 1), 4, "0")

\* handleSave line 182: generateTaskCode answers.
CodeGenerate(c) ==
    /\ codeOf[c] = NoCode
    /\ codeOf' = [codeOf EXCEPT ![c] = TaskCodeFor(StoredCount)]
    /\ UNCHANGED <<taskCodes, inserted>>
    /\ UNCHANGED <<calcVars, taskVars, concVars, saveVars, gateVars>>

\* handleSave lines 190-213: the insert with the fetched code is answered.
CodeInsert(c, outcome) ==
    /\ codeOf[c] # NoCode
    /\ inserted < MaxInserts \/ ~Written(outcome)
    /\ IF Written(outcome)
       THEN /\ taskCodes' = [taskCodes EXCEPT ![inserted + 1] = codeOf[c]]
            /\ inserted' = inserted + 1
       ELSE UNCHANGED <<taskCodes, inserted>>
    /\ codeOf' = [codeOf EXCEPT ![c] = NoCode]
    /\ UNCHANGED <<calcVars, taskVars, concVars, saveVars, gateVars>>

\* handleDelete, lines 118-139, confirmed and accepted by the store.
CodeDelete(i) ==
    /\ taskCodes[i] # NoCode
    /\ taskCodes' = [taskCodes EXCEPT ![i] = NoCode]
    /\ UNCHANGED <<inserted, codeOf>>
    /\ UNCHANGED <<calcVars, taskVars, concVars, saveVars, gateVars>>

CodeInit == CalcIdle /\ TaskIdle /\ ConcIdle /\ PageIdle

CodeNext ==
    \/ \E c \in Clients : CodeGenerate(c)
    \/ \E c \in Clients, outcome \in WriteOutcomes : CodeInsert(c, outcome)
    \/ \E i \in CodeSlots : CodeDelete(i)

CodeSpec == CodeInit /\ [][CodeNext]_vars

(***************************************************************************)
(* handleSave (src/pages/TasksPage.tsx:141-224) step by step: the submit   *)
(* up to the first await, and one step for every answer it awaits.  While  *)
(* an answer is awaited the page stays live: the modal can be closed and   *)
(* other clients work.  called[c] holds what the handler of client c has   *)
(* called since its form was submitted: "sendWebhook", "onUpdate",         *)
(* "alert".                                                                *)
(***************************************************************************)
\* What the store answers to a write: accepted; rejected with an error whose
\* message mentions 'concern'; rejected with another error.
Answers == {"ok", "concern", "error"}

\* Lines 171-178, 204-211: the answers that make handleSave throw.
\* No answer makes it throw.
Throws_never(call, answer) == FALSE

Throws(call, answer) ==
    \/ answer = "error"
    \/ answer = "concern" /\ call.at \in {"updateRetry", "insertRetry"}

\* Lines 141-169 with a task in the editor: the form is submitted and the
\* update is sent.  The submit button is disabled while isSaving (line 460).
SubmitEdit(c, status) ==
    /\ editingTask[c] # NoTask
    /\ ~isSaving[c]
    /\ isSaving' = [isSaving EXCEPT ![c] = TRUE]
    /\ called' = [called EXCEPT ![c] = {}]
    /\ saveCall' = [saveCall EXCEPT ![c] =
                       [at |-> "update",
                        id |-> editingTask[c].id,
                        data |-> EditTaskData(editingTask[c], status,
                                              NowStr(now))]]
    /\ UNCHANGED taskVars
    /\ UNCHANGED <<calcVars, concVars, codeVars, gateVars>>

\* Lines 141-182 without a task in the editor: the form is submitted and
\* generateTaskCode is called.
SubmitCreate(c) ==
    /\ editingTask[c] = NoTask
    /\ isModalOpen[c]
    /\ ~isSaving[c]
    /\ isSaving' = [isSaving EXCEPT ![c] = TRUE]
    /\ called' = [called EXCEPT ![c] = {}]
    /\ saveCall' = [saveCall EXCEPT ![c] = [at |-> "code"]]
    /\ UNCHANGED taskVars
    /\ UNCHANGED <<calcVars, concVars, codeVars, gateVars>>

\* Lines 182-202: generateTaskCode answers and the insert is sent.
CodeAnswered(c) ==
    /\ saveCall[c].at = "code"
    /\ saveCall' = [saveCall EXCEPT ![c] =
                       [at |-> "insert",
                        data |-> [task_code |-> generateTaskCode,
                                  status |-> "Assign",
                                  task_start_time |-> NowStr(now),
                                  task_end_time |-> NullStr,
                                  elapsed_hours |-> 0]]]
    /\ UNCHANGED <<isSaving, called>>
    /\ UNCHANGED taskVars
    /\ UNCHANGED <<calcVars, concVars, codeVars, gateVars>>

\* Lines 218-223: the catch and finally blocks.
Caught(c) ==
    /\ called' = [called EXCEPT ![c] = @ \cup {"alert"}]
    /\ isSaving' = [isSaving EXCEPT ![c] = FALSE]
    /\ saveCall' = [saveCall EXCEPT ![c] = NoCall]
    /\ UNCHANGED <<isModalOpen, editingTask>>

\* Lines 180 or 213, 215-217 and 221-223: the webhook when the answer
\* carries the written row, the modal closed, the editor emptied, onUpdate,
\* and the finally block.
Completed(c, answer) ==
    /\ called' = [called EXCEPT ![c] =
                     @ \cup (IF answer = "ok" THEN {"sendWebhook"} ELSE {})
                       \cup {"onUpdate"}]
    /\ isModalOpen' = [isModalOpen EXCEPT ![c] = FALSE]
    /\ editingTask' = [editingTask EXCEPT ![c] = NoTask]
    /\ isSaving' = [isSaving EXCEPT ![c] = FALSE]
    /\ saveCall' = [saveCall EXCEPT ![c] = NoCall]

\* Lines 169-180 and 215-223: the update, or its retry without the concern
\* field, is answered.  The store accepts an update only of a row it holds,
\* and may reject any write.
UpdateAnswered(c, answer) ==
    LET call == saveCall[c]
    IN  /\ call.at \in {"update", "updateRetry"}
        /\ answer = "ok" => tasks[call.id] # NoTask
        /\ IF Throws(call, answer)
           THEN Caught(c) /\ UNCHANGED tasks
           ELSE IF answer = "concern"
           THEN /\ saveCall' = [saveCall EXCEPT ![c].at = "updateRetry"]
                /\ UNCHANGED <<tasks, isModalOpen, editingTask, isSaving,
                               called>>
           ELSE /\ Completed(c, answer)
                /\ tasks' = IF answer = "ok"
                            THEN [tasks EXCEPT ![call.id] =
                                     Update(@, call.data)]
                            ELSE tasks
        /\ UNCHANGED <<nextId, now, pendingCode>>
        /\ UNCHANGED <<calcVars, concVars, codeVars, gateVars>>

\* Lines 202-223: the insert, or its retry without the concern field, is
\* answered.  The store holds at most MaxTasks rows ever inserted.
InsertAnswered(c, answer) ==
    LET call == saveCall[c]
    IN  /\ call.at \in {"insert", "insertRetry"}
        /\ answer = "ok" => nextId <= MaxTasks
        /\ IF Throws(call, answer)
           THEN Caught(c) /\ UNCHANGED <<tasks, nextId>>
           ELSE IF answer = "concern"
           THEN /\ saveCall' = [saveCall EXCEPT ![c].at = "insertRetry"]
                /\ UNCHANGED <<tasks, nextId, isModalOpen, editingTask,
                               isSaving, called>>
           ELSE /\ Completed(c, answer)
                /\ IF answer = "ok"
                   THEN /\ tasks' = [tasks EXCEPT ![nextId] =
                                        [id |-> nextId] @@ call.data]
                        /\ nextId' = nextId + 1
                   ELSE UNCHANGED <<tasks, nextId>>
        /\ UNCHANGED <<now, pendingCode>>
        /\ UNCHANGED <<calcVars, concVars, codeVars, gateVars>>

SaveInit == CalcIdle /\ TaskIdle /\ ConcIdle /\ PageIdle

SaveNext ==
    \/ \E c \in Clients : OpenCreate(c)
    \/ \E c \in Clients, id \in TaskIds : OpenEdit(c, id)
    \/ \E c \in Clients : CloseModal(c)
    \/ \E c \in Clients, status \in Statuses : SubmitEdit(c, status)
    \/ \E c \in Clients : SubmitCreate(c)
    \/ \E c \in Clients : CodeAnswered(c)
    \/ \E c \in Clients, answer \in Answers : UpdateAnswered(c, answer)
    \/ \E c \in Clients, answer \in Answers : InsertAnswered(c, answer)

SaveSpec == SaveInit /\ [][SaveNext]_vars

(***************************************************************************)
(* The application shell (src/App.tsx), the sidebar and the filters of the *)
(* task page.  The state of the task page exists while the page is         *)
(* mounted: it starts from its defaults whenever the page is rendered      *)
(* anew.                                                                   *)
(***************************************************************************)
\* TasksPage line 49.
isManager == currentUser.role = MANAGER

\* Sidebar lines 13-29: the pages the sidebar offers to a role.
menuItems(role) ==
    {"dashboard", "tasks"}
        \cup (IF role = MANAGER THEN {"employees", "valuations"} ELSE {})

\* App lines 40-61: what is rendered.
\* The pages are rendered for every role.
renderPage_noGate ==
    IF currentUser = NoUser THEN "LoginPage"
    ELSE CASE activePage = "dashboard" -> "Dashboard"
           [] activePage = "tasks" -> "TasksPage"
           [] activePage = "employees" -> "EmployeesPage"
           [] activePage = "valuations" -> "ValuationsPage"
           [] activePage = "settings" -> "SettingsPage"
           [] OTHER -> "Dashboard"

renderPage ==
    IF currentUser = NoUser THEN "LoginPage"
    ELSE CASE activePage = "dashboard" -> "Dashboard"
           [] activePage = "tasks" -> "TasksPage"
           [] activePage = "employees" ->
                 IF currentUser.role # MANAGER THEN "Access Denied"
                 ELSE "EmployeesPage"
           [] activePage = "valuations" ->
                 IF currentUser.role # MANAGER THEN "Access Denied"
                 ELSE "ValuationsPage"
           [] activePage = "settings" -> "SettingsPage"
           [] OTHER -> "Dashboard"

\* Line 80: newest first.  Tasks are listed in db.tasks in the order of
\* their creation.
RECURSIVE sortNewestFirst(_)
sortNewestFirst(list) ==
    IF list = << >> THEN << >>
    ELSE sortNewestFirst(Tail(list)) \o <<Head(list)>>

\* Line 77: the search term is found in the title or in the task code.
Matches(t, term) == t.title = term \/ t.task_code = term

\* TasksPage lines 65-81; Array.prototype.filter is SelectSeq.
\* The assignee filter is applied to every role.
filteredTasks_filterOnly ==
    LET r1 == IF assigneeFilter # ALL
              THEN SelectSeq(db, LAMBDA t : t.assigned_to = assigneeFilter)
              ELSE db
        r2 == IF statusFilter # ALL
              THEN SelectSeq(r1, LAMBDA t : t.status = statusFilter)
              ELSE r1
        r3 == IF searchTerm # ""
              THEN SelectSeq(r2, LAMBDA t : Matches(t, searchTerm))
              ELSE r2
    IN  sortNewestFirst(r3)

filteredTasks ==
    LET r1 == IF ~isManager
              THEN SelectSeq(db, LAMBDA t : t.assigned_to = currentUser.id)
              ELSE IF assigneeFilter # ALL
              THEN SelectSeq(db, LAMBDA t : t.assigned_to = assigneeFilter)
              ELSE db
        r2 == IF statusFilter # ALL
              THEN SelectSeq(r1, LAMBDA t : t.status = statusFilter)
              ELSE r1
        r3 == IF searchTerm # ""
              THEN SelectSeq(r2, LAMBDA t : Matches(t, searchTerm))
              ELSE r2
    IN  sortNewestFirst(r3)

\* The task page is on screen.
TasksPageMounted == renderPage = "TasksPage"

\* TasksPage lines 45-47: the state of a page rendered anew.
FiltersReset ==
    /\ statusFilter' = ALL
    /\ assigneeFilter' = ALL
    /\ searchTerm' = ""

\* App lines 26-29, and the session restored by lines 19-24.
handleLogin(user) ==
    /\ currentUser = NoUser
    /\ currentUser' = user
    /\ UNCHANGED <<activePage, statusFilter, assigneeFilter, searchTerm, db>>
    /\ UNCHANGED <<calcVars, taskVars, concVars, codeVars, saveVars>>

\* App lines 31-34: activePage is left as it is.
handleLogout ==
    /\ currentUser # NoUser
    /\ currentUser' = NoUser
    /\ FiltersReset
    /\ UNCHANGED <<activePage, db>>
    /\ UNCHANGED <<calcVars, taskVars, concVars, codeVars, saveVars>>

\* Sidebar line 49: a menu item is clicked.
onPageChange(page) ==
    /\ currentUser # NoUser
    /\ page \in menuItems(currentUser.role)
    /\ page # activePage
    /\ activePage' = page
    /\ FiltersReset
    /\ UNCHANGED <<currentUser, db>>
    /\ UNCHANGED <<calcVars, taskVars, concVars, codeVars, saveVars>>

\* TasksPage line 253.
setStatusFilter(status) ==
    /\ TasksPageMounted
    /\ statusFilter' = status
    /\ UNCHANGED <<currentUser, activePage, assigneeFilter, searchTerm, db>>
    /\ UNCHANGED <<calcVars, taskVars, concVars, codeVars, saveVars>>

\* TasksPage lines 257-264: the select is rendered for a manager only.
setAssigneeFilter(assignee) ==
    /\ TasksPageMounted
    /\ isManager
    /\ assigneeFilter' = assignee
    /\ UNCHANGED <<currentUser, activePage, statusFilter, searchTerm, db>>
    /\ UNCHANGED <<calcVars, taskVars, concVars, codeVars, saveVars>>

\* TasksPage line 251.
setSearchTerm(term) ==
    /\ TasksPageMounted
    /\ searchTerm' = term
    /\ UNCHANGED <<currentUser, activePage, statusFilter, assigneeFilter, db>>
    /\ UNCHANGED <<calcVars, taskVars, concVars, codeVars, saveVars>>

\* App lines 36-38: the data is read anew.  The list read differs from the
\* one held by what one write to the store has done: a task appended, the
\* newest task deleted, or the columns of one task changed.  Lists that
\* differ by more are reached by as many steps.
OneWriteLater(list) ==
    {Append(list, t) : t \in IF Len(list) < MaxListed
                              THEN ListedTasks(Len(list) + 1) ELSE {}}
        \cup (IF list = << >> THEN {} ELSE {SubSeq(list, 1, Len(list) - 1)})
        \cup UNION {{[list EXCEPT ![i] = t] : t \in ListedTasks(i) \ {list[i]}} :
                       i \in 1..Len(list)}

updateDB(list) ==
    /\ currentUser # NoUser
    /\ db' = list
    /\ UNCHANGED <<currentUser, activePage, statusFilter, assigneeFilter,
                   searchTerm>>
    /\ UNCHANGED <<calcVars, taskVars, concVars, codeVars, saveVars>>

\* App lines 15-17: nobody logged in, the dashboard active, db as stored.
GateInit ==
    /\ CalcIdle /\ TaskIdle /\ ConcIdle /\ CodeIdle /\ SaveIdle
    /\ currentUser = NoUser
    /\ activePage = "dashboard"
    /\ statusFilter = ALL
    /\ assigneeFilter = ALL
    /\ searchTerm = ""
    /\ db \in TaskLists

GateNext ==
    \/ \E user \in Users : handleLogin(user)
    \/ handleLogout
    \/ \E page \in Pages : onPageChange(page)
    \/ \E status \in Statuses \cup {ALL} : setStatusFilter(status)
    \/ \E assignee \in {"u1", "u2", "u3", ALL} : setAssigneeFilter(assignee)
    \/ \E term \in SearchTerms : setSearchTerm(term)
    \/ \E list \in OneWriteLater(db) : updateDB(list)

GateSpec == GateInit /\ [][GateNext]_vars

(***************************************************************************)
(* Vocabulary of the properties.                                           *)
(***************************************************************************)
DayOf(t) == t \div MsPerDay

ClockOf(t) == t % MsPerDay

OpeningOf(d) == d * MsPerDay + OFFICE_HOURS_START * MsPerHour

ClosingOf(d) == d * MsPerDay + OFFICE_HOURS_END * MsPerHour

\* Weekday of calendar day d, 0 = Sunday; day 0 is Thursday 1970-01-01.
WeekdayOf(d) == (d + 4) % 7

WorkingDaySet == {6, 0, 1, 2, 3, 4}

Max2(a, b) == IF a > b THEN a ELSE b

Min2(a, b) == IF a < b THEN a ELSE b

Abs(x) == IF x < 0 THEN -x ELSE x

\* r hundredths of an hour is a nearest two-decimal value to ms milliseconds.
IsRounded2(r, ms) == 2 * Abs(36000 * r - ms) <= 36000

\* Length of the intersection of [s, e] with the office window of day d,
\* zero on a day outside the working-day set.
WindowOverlap(d, s, e) ==
    IF WeekdayOf(d) \in WorkingDaySet
    THEN Max2(0, Min2(e, ClosingOf(d)) - Max2(s, OpeningOf(d)))
    ELSE 0

RECURSIVE SumOverDays(_, _, _, _)
SumOverDays(d, last, s, e) ==
    IF d > last THEN 0
    ELSE WindowOverlap(d, s, e) + SumOverDays(d + 1, last, s, e)

ReferenceSum(s, e) == SumOverDays(DayOf(s), DayOf(e), s, e)

At(d, h, m, sec) == d * MsPerDay + h * MsPerHour + m * 60000 + sec * 1000

\* Calendar days of the first modelled week, by name.
FirstDayWith(w) == CHOOSE d \in 0..6 : WeekdayOf(d) = w

Thu0 == FirstDayWith(4)
Fri1 == FirstDayWith(5)
Sat2 == FirstDayWith(6)
Mon4 == FirstDayWith(1)
Wed6 == FirstDayWith(3)
Thu7 == FirstDayWith(4) + 7

(***************************************************************************)
(* C1: for start < end the accumulated time is the reference sum over the  *)
(* calendar days from the date of start to the date of end of the overlap  *)
(* of [start, end] with the day's office window, non-working days adding   *)
(* nothing, and the returned value is that sum rounded to two decimals.    *)
(***************************************************************************)
C1_ElapsedIsReferenceSum ==
    (Returned /\ DateLt(start, end)) =>
        /\ pc = "ret583"
        /\ totalMilliseconds = ReferenceSum(start, end)
        /\ IsRounded2(result, ReferenceSum(start, end))

\* A span over several days that crosses the day off and is cut at both ends.
C1_Witness ==
    /\ pc = "ret583"
    /\ start = At(Thu0, 17, 59, 50)
    /\ end = At(Mon4, 9, 0, 54)
    /\ iters = 5
    /\ totalMilliseconds = 10000 + 2 * 9 * MsPerHour + 54000

(***************************************************************************)
(* C2: for start >= end (start = end included) the function returns 0 by   *)
(* the guard of line 552, before any loop iteration.                       *)
(***************************************************************************)
C2_ZeroOnNonPositiveSpan ==
    (pc # "entry" /\ DateGe(start, end)) =>
        /\ pc = "ret552"
        /\ result = 0
        /\ iters = 0

C2_Witness ==
    /\ pc = "ret552"
    /\ start = end
    /\ start = At(Mon4, 10, 0, 0)
    /\ result = 0

(***************************************************************************)
(* C3: start < end on the same working day, both inside the office window: *)
(* the result is end - start in hours, rounded to two decimals; Monday     *)
(* 10:00 to Monday 14:00 gives 4.00.                                       *)
(***************************************************************************)
C3_SameDayInsideWindow ==
    /\ (/\ Returned
        /\ DateLt(start, end)
        /\ DayOf(start) = DayOf(end)
        /\ WeekdayOf(DayOf(start)) \in WorkingDaySet
        /\ ClockOf(start) >= OFFICE_HOURS_START * MsPerHour
        /\ ClockOf(end) <= OFFICE_HOURS_END * MsPerHour)
       => (IsRounded2(result, end - start) /\ totalMilliseconds = end - start)
    /\ (Returned /\ start = At(Mon4, 10, 0, 0) /\ end = At(Mon4, 14, 0, 0))
       => result = 400

C3_Witness ==
    /\ Returned
    /\ start = At(Mon4, 10, 0, 0)
    /\ end = At(Mon4, 14, 0, 0)
    /\ iters = 1
    /\ result = 400

(***************************************************************************)
(* C4: start before opening on a working day, end inside that day's        *)
(* window: the result is end - officeStart in hours; Monday 08:00 to       *)
(* Monday 09:30 gives 0.50.                                                *)
(***************************************************************************)
C4_ClippedAtOpening ==
    /\ (/\ Returned
        /\ DateLt(start, end)
        /\ DayOf(start) = DayOf(end)
        /\ WeekdayOf(DayOf(start)) \in WorkingDaySet
        /\ ClockOf(start) < OFFICE_HOURS_START * MsPerHour
        /\ ClockOf(end) >= OFFICE_HOURS_START * MsPerHour
        /\ ClockOf(end) <= OFFICE_HOURS_END * MsPerHour)
       => (/\ totalMilliseconds = end - OpeningOf(DayOf(start))
           /\ IsRounded2(result, end - OpeningOf(DayOf(start))))
    /\ (Returned /\ start = At(Mon4, 8, 0, 0) /\ end = At(Mon4, 9, 30, 0))
       => result = 50

C4_Witness ==
    /\ Returned
    /\ start = At(Mon4, 8, 0, 0)
    /\ end = At(Mon4, 9, 30, 0)
    /\ iters = 1
    /\ result = 50

(***************************************************************************)
(* C5: start at or after closing on its calendar day: that day adds        *)
(* nothing and the result is the elapsed time counted from the next        *)
(* calendar day at opening to end; Wednesday 20:00 to Thursday 08:00       *)
(* gives 0.                                                                *)
(***************************************************************************)
C5_StartAfterClosing ==
    /\ (/\ pc # "entry"
        /\ DateLt(start, end)
        /\ ClockOf(start) >= OFFICE_HOURS_END * MsPerHour)
       => /\ iters = 1 => totalMilliseconds = 0
          /\ Returned =>
               /\ totalMilliseconds =
                     AccumulatedMs(OpeningOf(DayOf(start) + 1), end)
               /\ result = ElapsedBetween(OpeningOf(DayOf(start) + 1), end)
    /\ (Returned /\ start = At(Wed6, 20, 0, 0) /\ end = At(Thu7, 8, 0, 0))
       => result = 0

\* Start after closing on Wednesday, end inside Thursday's window.
C5_Witness ==
    /\ Returned
    /\ start = At(Wed6, 18, 30, 0)
    /\ end = At(Thu7, 10, 0, 0)
    /\ iters = 2
    /\ result = 100

(***************************************************************************)
(* C6: a span start < end inside one non-working calendar day yields 0;    *)
(* Friday 09:00 to Friday 17:00 gives 0.                                   *)
(***************************************************************************)
C6_OffDayYieldsZero ==
    (/\ Returned
     /\ DateLt(start, end)
     /\ DayOf(start) = DayOf(end)
     /\ WeekdayOf(DayOf(start)) \notin WorkingDaySet)
    => (result = 0 /\ totalMilliseconds = 0)

C6_Witness ==
    /\ pc = "ret583"
    /\ start = At(Fri1, 9, 0, 0)
    /\ end = At(Fri1, 17, 0, 0)
    /\ iters = 1
    /\ result = 0

(***************************************************************************)
(* C7: a non-working day strictly inside a span adds nothing: the result   *)
(* is what the part before that day and the part after it accumulate       *)
(* together; Thursday 17:00 to Saturday 10:00 gives 1.00 + 0 + 1.00.       *)
(***************************************************************************)
C7_OffDayInsideSpan ==
    /\ (Returned /\ DateLt(start, end)) =>
         \A f \in (DayOf(start) + 1)..(DayOf(end) - 1) :
            WeekdayOf(f) \notin WorkingDaySet =>
               LET before == AccumulatedMs(start, f * MsPerDay)
                   after == AccumulatedMs((f + 1) * MsPerDay, end)
               IN  /\ totalMilliseconds = before + after
                   /\ result = ReturnValue(before + after)
    /\ (Returned /\ start = At(Thu0, 17, 0, 0) /\ end = At(Sat2, 10, 0, 0))
       => result = 200

C7_Witness ==
    /\ Returned
    /\ start = At(Thu0, 17, 0, 0)
    /\ end = At(Sat2, 10, 0, 0)
    /\ iters = 3
    /\ result = 200

(***************************************************************************)
(* C8: additivity at day boundaries.  Boundaries are the midnights, the    *)
(* openings and the closings of the calendar days.                         *)
(***************************************************************************)
Boundaries ==
    UNION { {d * MsPerDay, OpeningOf(d), ClosingOf(d)} : d \in 0..(MaxDay + 1) }

BoundariesWithin(s, e) == {b \in Boundaries : s <= b /\ b <= e}

\* C8 as stated: the returned two-decimal values add up exactly when the
\* span is cut at a boundary.
C8_RoundedValuesAdditive ==
    (Returned /\ DateLt(start, end)) =>
        \A b \in BoundariesWithin(start, end) :
            result = ElapsedBetween(start, b) + ElapsedBetween(b, end)

\* C8 amended: the accumulated time before rounding adds up exactly when
\* the span is cut at a boundary, and the returned two-decimal values add
\* up to within 0.01 hours.
C8_AccumulatedTimeAdditive ==
    (Returned /\ DateLt(start, end)) =>
        \A b \in BoundariesWithin(start, end) :
            /\ totalMilliseconds =
                  AccumulatedMs(start, b) + AccumulatedMs(b, end)
            /\ Abs(result - (ElapsedBetween(start, b) + ElapsedBetween(b, end)))
                  <= 1

\* A cut at Friday midnight leaves under half a hundredth on each side.
C8_Witness ==
    /\ Returned
    /\ start = At(Thu0, 17, 59, 50)
    /\ end = At(Sat2, 9, 0, 10)
    /\ result = 1
    /\ ElapsedBetween(start, Fri1 * MsPerDay) = 0
    /\ ElapsedBetween(Fri1 * MsPerDay, end) = 0

(***************************************************************************)
(* C9: for valid start < end the loop exits and the function returns.      *)
(***************************************************************************)
C9_Terminates == (pc = "while" /\ DateLt(start, end)) ~> (pc = "ret583")

\* A return after a loop over more than a week of calendar days.
C9_Witness ==
    /\ pc = "ret583"
    /\ iters >= 8
    /\ DateGe(current, end)

(***************************************************************************)
(* C10: every iteration moves the cursor to the next calendar date at      *)
(* opening, so the cursor strictly increases, and from the first           *)
(* iteration on its time of day is the opening hour.                       *)
(***************************************************************************)
C10_CursorAdvances ==
    [][/\ (iters' = iters + 1) =>
             /\ current' = OpeningOf(DayOf(current) + 1)
             /\ current' > current
       /\ (iters' >= 1) => ClockOf(current') = OFFICE_HOURS_START * MsPerHour
      ]_vars

\* An iteration on the day off, started after hours, has moved the cursor.
C10_Witness ==
    /\ pc = "while"
    /\ start = At(Fri1, 20, 0, 0)
    /\ iters = 1
    /\ totalMilliseconds = 0
    /\ current = OpeningOf(Sat2)

(***************************************************************************)
(* C11: the loop runs at most once per calendar date from the date of      *)
(* start to the date of end: the k-th iteration examines the k-th date     *)
(* after start's, and no date twice.                                       *)
(***************************************************************************)
C11_OneIterationPerDate ==
    (pc \in {"while", "ret583"} /\ DateLt(start, end)) =>
        /\ iters <= DayOf(end) - DayOf(start) + 1
        /\ DayOf(current) = DayOf(start) + iters

\* A span from the first day's morning to the last day's evening has used
\* one iteration for each of its dates.
C11_Witness ==
    /\ pc = "ret583"
    /\ DayOf(start) = 0
    /\ DayOf(end) >= 8
    /\ ClockOf(end) > OFFICE_HOURS_START * MsPerHour
    /\ iters = DayOf(end) - DayOf(start) + 1

(***************************************************************************)
(* C12: the returned value is a non-negative number of hundredths within   *)
(* 0.005 hours of the accumulated time; the accumulator is never negative  *)
(* during the loop, so Math.max(0, ...) leaves the rounded value as it is. *)
(***************************************************************************)
C12_NonNegativeRounded ==
    /\ totalMilliseconds >= 0
    /\ result \in Nat
    /\ pc = "ret552" => result = 0
    /\ pc = "ret583" =>
          /\ IsRounded2(result, totalMilliseconds)
          /\ result = toFixed2(totalMilliseconds)

\* 9 hours and 54 seconds: 9.015 hours, halfway between two hundredths.
C12_Witness ==
    /\ pc = "ret583"
    /\ totalMilliseconds = 9 * MsPerHour + 54000
    /\ result \in {901, 902}

(***************************************************************************)
(* C13: every call returns a number, whatever the order of its inputs;     *)
(* with an unparsable input it runs no loop iteration and returns 0.       *)
(***************************************************************************)
HasInvalidInput ==
    startDateStr = InvalidDateStr \/ endDateStr = InvalidDateStr

C13_TotalAndZeroOnInvalid ==
    /\ <>(Returned /\ result \in Nat)
    /\ [](HasInvalidInput => (iters = 0 /\ (Returned => result = 0)))

C13_Witness ==
    /\ pc = "ret583"
    /\ startDateStr = InvalidDateStr
    /\ endDateStr # InvalidDateStr
    /\ iters = 0
    /\ result = 0

(***************************************************************************)
(* C16: the calendar of the calculator is constant and well formed: the    *)
(* working days are the set {6, 0, 1, 2, 3, 4}, a non-empty subset of      *)
(* 0..6 looked up by membership, Friday (5) is the only day off, and the   *)
(* office hours are 9 < 18, both within 0..23.                             *)
(***************************************************************************)
WorkingDaysOf(arr) == {arr[i] : i \in 1..Len(arr)}

C16_CalendarWellFormed ==
    /\ WorkingDaysOf(VALID_WORKING_DAYS) # {}
    /\ WorkingDaysOf(VALID_WORKING_DAYS) \subseteq 0..6
    /\ WorkingDaysOf(VALID_WORKING_DAYS) = {6, 0, 1, 2, 3, 4}
    /\ (0..6) \ WorkingDaysOf(VALID_WORKING_DAYS) = {5}
    /\ OFFICE_HOURS_START = 9
    /\ OFFICE_HOURS_END = 18
    /\ OFFICE_HOURS_START < OFFICE_HOURS_END
    /\ {OFFICE_HOURS_START, OFFICE_HOURS_END} \subseteq 0..23
    /\ (pc = "while" /\ current # NaN) =>
          (isWorkingDay(current) <=> WeekdayOf(DayOf(current)) # 5)

\* The loop stands on a Friday, which the lookup rejects.
C16_Witness ==
    /\ pc = "while"
    /\ iters >= 1
    /\ LoopTest(current, end)
    /\ WeekdayOf(DayOf(current)) = 5
    /\ ~isWorkingDay(current)

(***************************************************************************)
(* C17: in an iteration on a working day the office window lies on the     *)
(* cursor's calendar date, from opening 09:00:00 to closing 18:00:00 of    *)
(* that date, so it is non-empty and never on a neighbouring date.         *)
(***************************************************************************)
C17_WindowOnCursorDate ==
    (pc = "while" /\ LoopTest(current, end) /\ isWorkingDay(current)) =>
        /\ DayOf(dayStart(current)) = DayOf(current)
        /\ DayOf(dayEnd(current)) = DayOf(current)
        /\ ClockOf(dayStart(current)) = OFFICE_HOURS_START * MsPerHour
        /\ ClockOf(dayEnd(current)) = OFFICE_HOURS_END * MsPerHour
        /\ dayStart(current) < dayEnd(current)

\* The cursor stands late in the evening of a working day.
C17_Witness ==
    /\ pc = "while"
    /\ iters = 0
    /\ LoopTest(current, end)
    /\ isWorkingDay(current)
    /\ ClockOf(current) = 20 * MsPerHour

(***************************************************************************)
(* C18: an edit saved with status Done writes one row, with task_end_time  *)
(* the current time and elapsed_hours = calculateElapsedHours of the       *)
(* task's start time and that end time.                                    *)
(***************************************************************************)
C18_DoneSaveWritesEndAndElapsed ==
    [][\A c \in Clients :
          (editingTask[c] # NoTask /\ editingTask'[c] = NoTask) =>
             \A o \in {w \in WriteOutcomes : Written(w)} :
                SaveEdit(c, "Done", o) =>
                   LET id == editingTask[c].id
                   IN  /\ tasks'[id].status = "Done"
                       /\ tasks'[id].task_end_time = NowStr(now)
                       /\ tasks'[id].elapsed_hours =
                             calculateElapsedHours(tasks[id].task_start_time,
                                                   NowStr(now))
                       /\ \A j \in TaskIds \ {id} : tasks'[j] = tasks[j]
      ]_vars

\* A task started Thursday 17:00 and saved as Done at 17:59:50.
C18_Witness ==
    \E id \in TaskIds :
        /\ tasks[id] # NoTask
        /\ tasks[id].status = "Done"
        /\ tasks[id].task_start_time = NowStr(0)
        /\ tasks[id].task_end_time = NowStr(1)
        /\ tasks[id].elapsed_hours = 100

(***************************************************************************)
(* C19: the save that moves a task from another status to Done sets        *)
(* task_end_time, and no later step changes the task_end_time or the       *)
(* elapsed_hours of a task whose status is already Done.                   *)
(***************************************************************************)
C19_EndTimeSetOnceAtDone ==
    [][\A id \in TaskIds :
          (tasks[id] # NoTask /\ tasks'[id] # NoTask) =>
             /\ (tasks[id].status # "Done" /\ tasks'[id].status = "Done")
                   => tasks'[id].task_end_time = NowStr(now)
             /\ tasks[id].status = "Done" =>
                   /\ tasks'[id].task_end_time = tasks[id].task_end_time
                   /\ tasks'[id].elapsed_hours = tasks[id].elapsed_hours
      ]_vars

(***************************************************************************)
(* C20: every stored task with a task_end_time has elapsed_hours =         *)
(* calculateElapsedHours(task_start_time, task_end_time).                  *)
(***************************************************************************)
C20_StoredElapsedMatches ==
    \A id \in TaskIds :
        (tasks[id] # NoTask /\ tasks[id].task_end_time # NullStr) =>
            tasks[id].elapsed_hours =
                calculateElapsedHours(tasks[id].task_start_time,
                                      tasks[id].task_end_time)

\* A task that ended, with hours on the clock, back in a status other than
\* Done.
C20_Witness ==
    \E id \in TaskIds :
        /\ tasks[id] # NoTask
        /\ tasks[id].status # "Done"
        /\ tasks[id].task_end_time # NullStr
        /\ tasks[id].elapsed_hours > 0

(***************************************************************************)
(* C15: an invocation writes only its own cursor and accumulator: its      *)
(* start and end stay the parsed arguments, and however the steps of       *)
(* invocations running at once interleave, each returns what it returns    *)
(* when run alone.                                                         *)
(***************************************************************************)
C15_InvocationsIndependent ==
    \A i \in Invocations :
        /\ calls[i].pc # "entry" =>
              /\ calls[i].start = NewDate(calls[i].startDateStr)
              /\ calls[i].end = NewDate(calls[i].endDateStr)
        /\ calls[i].pc \in {"ret552", "ret583"} =>
              calls[i].result =
                 calculateElapsedHours(calls[i].startDateStr,
                                       calls[i].endDateStr)

\* One invocation has returned hours while the other, called with other
\* arguments, is in the middle of its loop.
C15_Witness ==
    /\ calls[1].pc = "ret583"
    /\ calls[1].result > 0
    /\ calls[1].iters >= 2
    /\ calls[2].pc = "while"
    /\ calls[2].iters = 1
    /\ calls[2].startDateStr # calls[1].startDateStr
    /\ locals[2].totalMilliseconds > 0

(***************************************************************************)
(* C21: an edit saved with a status other than Done writes the end time    *)
(* the editor loaded, null or not, and when that end time is null it       *)
(* writes the elapsed hours the editor loaded, not recomputed ones.        *)
(***************************************************************************)
C21_OtherStatusKeepsEndTime ==
    [][\A c \in Clients :
          (editingTask[c] # NoTask /\ editingTask'[c] = NoTask) =>
             \A o \in {w \in WriteOutcomes : Written(w)},
                status \in Statuses \ {"Done"} :
                SaveEdit(c, status, o) =>
                   LET editing == editingTask[c]
                       row == tasks'[editing.id]
                   IN  /\ row.status = status
                       /\ row.task_end_time = editing.task_end_time
                       /\ editing.task_end_time = NullStr =>
                             row.elapsed_hours = editing.elapsed_hours
      ]_vars

\* A task that was ended at the first instant and then saved with another
\* status: it keeps its end time.
C21_Witness ==
    \E id \in TaskIds :
        /\ tasks[id] # NoTask
        /\ tasks[id].status = "Assign"
        /\ tasks[id].task_end_time = NowStr(0)

(***************************************************************************)
(* C22: task_start_time is written once, by the creation, which sets it to *)
(* the creation time together with status Assign and no end time; no later *)
(* step changes the start time of a stored task.                           *)
(***************************************************************************)
C22_StartTimeWrittenOnce ==
    [][\A id \in TaskIds :
          /\ (tasks[id] = NoTask /\ tasks'[id] # NoTask) =>
                /\ tasks'[id].task_start_time = NowStr(now)
                /\ tasks'[id].status = "Assign"
                /\ tasks'[id].task_end_time = NullStr
          /\ (tasks[id] # NoTask /\ tasks'[id] # NoTask) =>
                tasks'[id].task_start_time = tasks[id].task_start_time
      ]_vars

\* A task created at the first instant and edited at a later one.
C22_Witness ==
    \E id \in TaskIds :
        /\ tasks[id] # NoTask
        /\ tasks[id].task_start_time = NowStr(0)
        /\ tasks[id].task_end_time = NowStr(1)
        /\ now = 1

(***************************************************************************)
(* C23: every stored task whose status is Done has an end time.            *)
(***************************************************************************)
C23_DoneHasEndTime ==
    \A id \in TaskIds :
        (tasks[id] # NoTask /\ tasks[id].status = "Done") =>
            tasks[id].task_end_time # NullStr

\* A task saved as Done at the instant of its creation.
C23_Witness ==
    \E id \in TaskIds :
        /\ tasks[id] # NoTask
        /\ tasks[id].status = "Done"
        /\ tasks[id].task_start_time = NowStr(0)
        /\ tasks[id].task_end_time = NowStr(0)

(***************************************************************************)
(* C24: calculateElapsedHours is monotone in its span: moving the start    *)
(* to an earlier time, the end to a later time, or both, never lowers the  *)
(* returned value.                                                         *)
(***************************************************************************)
\* The valid Date values the inputs are drawn from.
ValidDates == {NewDate(str) : str \in DateStrings \ {InvalidDateStr}}

\* The calendar midnights of the modelled days.
Midnights == {d * MsPerDay : d \in 0..MaxDay}

C24_MonotoneInSpan ==
    (Returned /\ start # NaN /\ end # NaN /\ start <= end) =>
        /\ \A s2 \in ValidDates :
              s2 <= start => result <= ElapsedBetween(s2, end)
        /\ \A e2 \in ValidDates :
              end <= e2 => result <= ElapsedBetween(start, e2)
        /\ \A s2 \in Midnights, e2 \in Midnights :
              (s2 <= start /\ end <= e2) => result <= ElapsedBetween(s2, e2)

\* Thursday 10:00 to 14:00 gives 4.00; from 08:00 it is 5.00, and to
\* Saturday 10:00, across the day off, it is 9.00.
C24_Witness ==
    /\ Returned
    /\ start = At(Thu0, 10, 0, 0)
    /\ end = At(Thu0, 14, 0, 0)
    /\ result = 400
    /\ ElapsedBetween(At(Thu0, 8, 0, 0), end) = 500
    /\ ElapsedBetween(start, At(Sat2, 10, 0, 0)) = 900

(***************************************************************************)
(* C25: before rounding, the accumulated time never exceeds the wall-clock *)
(* length end - start; one calendar day adds at most the length of the     *)
(* office window, 9 hours; and a span of seven whole consecutive days,     *)
(* midnight to midnight, accumulates exactly 6 * 9 = 54 hours.             *)
(***************************************************************************)
WindowLength == (OFFICE_HOURS_END - OFFICE_HOURS_START) * MsPerHour

C25_BoundedByWallClockAndWindow ==
    /\ (pc \in {"while", "ret583"} /\ DateLt(start, end)) =>
          totalMilliseconds <= end - start
    /\ totalMilliseconds <= iters * WindowLength
    /\ (pc = "while" /\ LoopTest(current, end)) =>
          DayContribution(current, end) <= WindowLength
    /\ (pc = "ret583" /\ ClockOf(start) = 0 /\ end = start + 7 * MsPerDay) =>
          /\ totalMilliseconds = 6 * WindowLength
          /\ totalMilliseconds = 54 * MsPerHour
          /\ result = 5400

\* The week from the first Thursday's midnight to the next one's.
C25_Witness ==
    /\ pc = "ret583"
    /\ start = At(Thu0, 0, 0, 0)
    /\ end = At(Thu7, 0, 0, 0)
    /\ iters = 7
    /\ totalMilliseconds = 54 * MsPerHour

(***************************************************************************)
(* C26: the result is the same when start and end are both moved by a      *)
(* whole number of weeks.  The call moved k weeks later is compared with   *)
(* the call made; moving a call k weeks earlier is the same comparison     *)
(* read from the later call.                                               *)
(***************************************************************************)
\* Weeks a call is moved by.
MaxShift == 1

\* The timestamp string k weeks later; an unparseable string stays so.
WeeksLater(str, k) ==
    IF str = InvalidDateStr THEN str ELSE [str EXCEPT !.day = @ + 7 * k]

C26_WeekShiftInvariant ==
    Returned =>
        \A k \in 1..MaxShift :
            calculateElapsedHours(WeeksLater(startDateStr, k),
                                  WeeksLater(endDateStr, k)) = result

\* Thursday 17:00 to the next Wednesday 10:00 is 38.00 hours, and so is the
\* same span one week later.
C26_Witness ==
    /\ Returned
    /\ start = At(Thu0, 17, 0, 0)
    /\ end = At(Wed6, 10, 0, 0)
    /\ result = 3800
    /\ ElapsedBetween(At(Thu7, 17, 0, 0), At(Wed6 + 7, 10, 0, 0)) = 3800

(***************************************************************************)
(* C27: task codes are unique: a code generateTaskCode has returned for a  *)
(* task being created is held by no stored task, and no two stored tasks   *)
(* hold the same task_code.                                                *)
(***************************************************************************)
C27_TaskCodesUnique ==
    /\ \A c \in Clients :
          codeOf[c] # NoCode =>
             \A i \in CodeSlots : taskCodes[i] # codeOf[c]
    /\ \A i \in CodeSlots, j \in CodeSlots :
          (i # j /\ taskCodes[i] # NoCode /\ taskCodes[j] # NoCode) =>
              taskCodes[i] # taskCodes[j]

(***************************************************************************)
(* C28: when the store rejects the write of handleSave with an error that  *)
(* does not mention 'concern', or rejects the retry made without the       *)
(* concern field, the step that handles the answer leaves the modal and    *)
(* the task in the editor as they are, calls neither onUpdate nor the      *)
(* webhook, and writes nothing; and isSaving is true exactly while a       *)
(* handleSave is awaiting an answer, so it is false after every outcome.   *)
(***************************************************************************)
\* The write of the call is rejected for good by this answer.
Rejected(call, answer) ==
    \/ answer = "error"
    \/ answer # "ok" /\ call.at \in {"updateRetry", "insertRetry"}

C29_RoleGating ==
    (currentUser # NoUser /\ currentUser.role # MANAGER) =>
        /\ renderPage \notin {"EmployeesPage", "ValuationsPage"}
        /\ activePage \in {"employees", "valuations"} =>
              renderPage = "Access Denied"
        /\ \A i \in 1..Len(filteredTasks) :
              filteredTasks[i].assigned_to = currentUser.id

\* An assignee logged in after a manager who had left the Employees page
\* open; db.tasks holds a task of the assignee and a task of somebody else.
C29_Witness ==
    /\ currentUser = [id |-> "u2", role |-> ASSIGNEE]
    /\ activePage = "employees"
    /\ renderPage = "Access Denied"
    /\ Len(db) = 2
    /\ Len(filteredTasks) = 1

====
